---- MODULE Spec2Model ----
(***************************************************************************)
(* A model of the NFT minting service: the Asset Publisher                 *)
(* (ipfs_upload.py), the Registration Submitter (mint_nft.py) and the      *)
(* /mint-nft request handler (main.py).  Every invocation is a process     *)
(* with its own program counter; the network answers are chosen            *)
(* nondeterministically at every call.                                     *)
(***************************************************************************)
EXTENDS Integers, Sequences, FiniteSets, TLC

\* ------------------------------------------------------------------ bounds

\* The wall clock advances in ticks up to MaxNow.
MaxNow == 3
\* Clock ticks per millisecond: the clock is finer than the millisecond
\* that int(time.time() * 1000) keeps.
TicksPerMs == 2

\* ----------------------------------------------------------- program data

\* for _ in range(10)
PollBudget == 10
\* the address pattern's length, {48}
AddressLen == 48

None == "None"

\* A URL is the sequence of its parts: scheme, host and path, content address.
Secure == "https://"
Gateway == "ipfs.io/ipfs/"
Hashes == {"QmA", "QmB"}

\* f"https://ipfs.io/ipfs/{ipfs_hash}"
GatewayUrl(ipfs_hash) == <<Secure, Gateway, ipfs_hash>>

\* str.startswith
StartsWith(url, prefix) == Len(url) >= 1 /\ url[1] = prefix

\* An address is known by its length and by whether all of its characters
\* are in [0-9a-zA-Z_-]; None is the absent address of a request.
Addresses ==
    {[len |-> n, alphabet |-> TRUE] : n \in {0, AddressLen - 1, AddressLen, AddressLen + 1}}
        \cup {[len |-> AddressLen, alphabet |-> FALSE]}

\* re.match(r"^[0-9a-zA-Z_-]{48}$", address)
MatchesAddress(address) == address.alphabet /\ address.len = AddressLen

\* TON_RECIPIENT, the default recipient: 48 characters of the alphabet
TON_RECIPIENT == [len |-> AddressLen, alphabet |-> TRUE]

\* The URLs a caller may pass to mint_nft.
UrlInputs == {GatewayUrl(h) : h \in Hashes} \cup {<<"http://", Gateway, "QmA">>}

\* int(time.time() * 1000): the clock cut to whole milliseconds
Timestamp(clock) == clock \div TicksPerMs

\* A filename is the sequence of its parts: prefix, timestamp, extension;
\* the empty sequence is the empty filename.
Filename(prefix, timestamp, extension) == <<prefix, timestamp, extension>>
NoFilename == <<>>

\* f"output_{timestamp}.png"
GeneratedName(timestamp) == Filename("output_", timestamp, "png")

\* "png" if file.content_type == "image/png" else "jpg"
Extension(content_type) == IF content_type = "image/png" THEN "png" ELSE "jpg"

\* f"uploaded_{timestamp}.{extension}"
UploadedName(timestamp, content_type) ==
    Filename("uploaded_", timestamp, Extension(content_type))

\* re.match(r"^uploaded_\d+\.(png|jpg)$", request.filename)
MatchesFilename(filename) ==
    /\ Len(filename) = 3
    /\ filename[1] = "uploaded_"
    /\ filename[2] \in Nat
    /\ filename[3] \in {"png", "jpg"}

\* Files of the temp directory that a /mint-nft request may name: one that
\* is there from the start and one that is not.
Filenames == {UploadedName(0, "image/png"), Filename("uploaded_", 0, "gif")}

\* The filenames a /upload-to-ipfs request may name: none, and the names
\* that the two producers give within the clock's range.
FilenameInputs ==
    {NoFilename}
        \cup {GeneratedName(t) : t \in 0..Timestamp(MaxNow)}
        \cup {UploadedName(t, c) : t \in 0..Timestamp(MaxNow), c \in {"image/png", "image/jpeg"}}

\* The content types and sizes of the files sent to /upload-image.
ContentTypes == {"image/png", "image/jpeg", "text/plain"}
AllowedTypes == {"image/png", "image/jpeg"}

\* ------------------------------------------------------- network answers

\* A transport failure (no answer) is status 0.
NoAnswer == 0
Statuses == {200, 301, 404, 500}

\* response.raise_for_status(): HTTPError for 4xx and 5xx
RaisesForStatus(status) == status >= 400 /\ status < 600

\* The exception a requests call ends with, None when it ends normally.
RequestError(status) ==
    IF status = NoAnswer THEN "ConnectionError"
    ELSE IF RaisesForStatus(status) THEN "HTTPError"
    ELSE None

\* str(e) of the exception a requests call ends with: it names the failure
\* and, for an HTTPError, the status that was answered.
ErrorDetail(status) == <<RequestError(status), status>>

\* requests.exceptions.RequestException and its subclasses
IsRequestException(exc) == exc \in {"ConnectionError", "HTTPError"}

\* Pinata's answers: a status and the IpfsHash of the body ("" when the body
\* has no such field).
PinAnswers ==
    {[status |-> s, IpfsHash |-> ""] : s \in {NoAnswer, 500}}
        \cup {[status |-> 200, IpfsHash |-> h] : h \in Hashes \cup {""}}

\* The registry's answers to its call number serial (0 the submit, k the
\* k-th status poll): a status and, when it answers 2xx, a JSON body.
RegistryStatuses == {"ready", "in_queue", "failed"}
Body(success, status, serial) ==
    [success |-> success,
     response |-> [status |-> status,
                   url |-> IF status = "ready" THEN "getgems.io/nft" ELSE None,
                   serial |-> serial]]
NoBody == Body(FALSE, None, -1)
RegistryAnswers(serial) ==
    {[status |-> s, body |-> NoBody] : s \in {NoAnswer, 500}}
        \cup {[status |-> 200, body |-> Body(b, st, serial)] : b \in BOOLEAN, st \in RegistryStatuses}

\* ---------------------------------------------------------- environment

PinataVars == {"PINATA_API_KEY", "PINATA_SECRET_API_KEY"}
GetgemsVars == {"GETGEMS_AUTH_TOKEN", "COLLECTION_ADDRESS"}
StabilityVars == {"STABILITY_API_KEY"}
EnvVars == PinataVars \cup GetgemsVars \cup StabilityVars
\* Everything configured, or one variable missing.
Environments == {EnvVars} \cup {EnvVars \ {v} : v \in EnvVars}

\* ------------------------------------------------------------ processes

Procs == {"a", "b"}
Entries == {"upload_image_to_ipfs", "upload_metadata_to_ipfs", "mint_nft", "mint_nft_endpoint",
            "generate_image_endpoint", "upload_image_endpoint", "upload_to_ipfs_endpoint"}

NoUrl == <<>>
NoArgs == [address |-> TON_RECIPIENT, image |-> NoUrl, metadata |-> NoUrl,
           filename |-> NoFilename, content_type |-> None, oversize |-> FALSE]
NoPayload == [requestId |-> -1, ownerAddress |-> TON_RECIPIENT, name |-> None,
              description |-> None, image |-> NoUrl, attributes |-> None]
NoResponse == [status |-> NoAnswer, json |-> FALSE]
NoLocals == [ipfs_image |-> NoUrl, ipfs_metadata |-> NoUrl, ipfs_hash |-> None,
             ipfs_url |-> NoUrl, metadata_json |-> None, request_id |-> -1,
             payload |-> NoPayload,
             result |-> NoBody, status_result |-> NoBody, attempt |-> 0,
             response |-> NoResponse, filename |-> NoFilename]

\* How an invocation ends: a returned value, a raised exception, or (a
\* handler) an HTTP response.
NoOutcome == [kind |-> "none"]
Returned(value) == [kind |-> "return", value |-> value]
Raised(exc, detail) == [kind |-> "raise", exc |-> exc, detail |-> detail]
Responded(status, message, detail) ==
    [kind |-> "response", status |-> status, message |-> message, detail |-> detail]

\* A network call: its method, its target, for a registry call the request
\* id it carries, and the status it was answered with.
Call(method, to, id, status) == [method |-> method, to |-> to, id |-> id, status |-> status]
PinFileUrl == <<Secure, "api.pinata.cloud/pinning/pinFileToIPFS">>
PinJsonUrl == <<Secure, "api.pinata.cloud/pinning/pinJSONToIPFS">>
MintingUrl == <<Secure, "api_host/public-api/minting/collection">>
StatusUrl == <<Secure, "api_host/public-api/minting/collection/request_id">>
StabilityUrl == <<Secure, "api.stability.ai/v2beta/stable-image/generate/core">>

VARIABLES
    now,        \* the wall clock, in ticks
    env,        \* the configured environment variables
    files,      \* the files of the temp directory
    entry,      \* per invocation: the function or handler invoked
    pc,         \* per invocation: where it stands
    args,       \* per invocation: the arguments of the running function
    loc,        \* per invocation: its local variables
    calls,      \* per invocation: the network calls issued, in order
    stages,     \* per invocation: the pipeline stages invoked, in order
    outcome     \* per invocation: how it ended

vars == <<now, env, files, entry, pc, args, loc, calls, stages, outcome>>

Init ==
    /\ now = 0
    /\ env \in Environments
    /\ files = {UploadedName(0, "image/png")}
    /\ entry = [p \in Procs |-> None]
    /\ pc = [p \in Procs |-> "idle"]
    /\ args = [p \in Procs |-> NoArgs]
    /\ loc = [p \in Procs |-> NoLocals]
    /\ calls = [p \in Procs |-> <<>>]
    /\ stages = [p \in Procs |-> <<>>]
    /\ outcome = [p \in Procs |-> NoOutcome]

\* time passes
Tick ==
    /\ now < MaxNow
    /\ now' = now + 1
    /\ UNCHANGED <<env, files, entry, pc, args, loc, calls, stages, outcome>>


\* ---------------------------------------------------------- the handlers

\* HTTPException(status_code=status, detail=detail), an Exception
HTTPException(status, detail) ==
    [kind |-> "raise", exc |-> "HTTPException", detail |-> detail, status |-> status]

\* (mutant) An HTTPException raised in the handler keeps its status.
ErrorResponseKeepingStatus(raised) ==
    Responded(IF raised.exc = "HTTPException" THEN raised.status ELSE 500, None, raised.detail)

\* except Exception as e: raise HTTPException(status_code=500, detail=str(e))
ErrorResponse(raised) == Responded(500, None, raised.detail)

\* except Exception as e:
\*     raise HTTPException(status_code=500, detail=f"IPFS upload failed: {str(e)}")
IpfsErrorResponse(raised) == Responded(500, None, <<"IPFS upload failed", raised.detail>>)

\* (mutant) The handler reports every successful result as minted.
MintAnswerIgnoringStatus(result) ==
    IF result.success
    THEN Responded(200, "NFT successfully minted", result.response.url)
    ELSE ErrorResponse(HTTPException(500, "Minting error"))

\* The handler's answer to the result of mint_nft.
MintAnswer(result) ==
    IF result.success
    THEN IF result.response.status = "ready"
         THEN Responded(200, "NFT successfully minted", result.response.url)
         ELSE Responded(200, "NFT queued for minting", result.response.url)
    ELSE ErrorResponse(HTTPException(500, "Minting error"))

\* (mutant) The handler goes on to publish the metadata although the image
\* publish raised.
EndpointResumeSwallowing(fn, r, l) ==
    IF fn = "upload_image_to_ipfs"
    THEN [pc |-> "call_metadata", outcome |-> NoOutcome,
          loc |-> IF r.kind = "return" THEN [l EXCEPT !.ipfs_image = r.value] ELSE l]
    ELSE IF r.kind = "raise"
    THEN [pc |-> "done", outcome |-> ErrorResponse(r), loc |-> l]
    ELSE IF fn = "upload_metadata_to_ipfs"
    THEN [pc |-> "call_mint", outcome |-> NoOutcome,
          loc |-> [l EXCEPT !.ipfs_metadata = r.value]]
    ELSE [pc |-> "done", outcome |-> MintAnswer(r.value), loc |-> l]

\* The handler after the stage fn that it called ended with r, the
\* invocation's locals being l: a raised exception is answered with an
\* error, a returned value is kept and the next stage is called.
EndpointResume(fn, r, l) ==
    IF r.kind = "raise"
    THEN [pc |-> "done", outcome |-> ErrorResponse(r), loc |-> l]
    ELSE IF fn = "upload_image_to_ipfs"
    THEN [pc |-> "call_metadata", outcome |-> NoOutcome,
          loc |-> [l EXCEPT !.ipfs_image = r.value]]
    ELSE IF fn = "upload_metadata_to_ipfs"
    THEN [pc |-> "call_mint", outcome |-> NoOutcome,
          loc |-> [l EXCEPT !.ipfs_metadata = r.value]]
    ELSE [pc |-> "done", outcome |-> MintAnswer(r.value), loc |-> l]

\* The /upload-to-ipfs handler after the stage fn that it called ended with
\* r: an exception is answered with an error, the image's URL is kept and
\* the metadata is published, and the two URLs are the answer.
IpfsEndpointResume(fn, r, l) ==
    IF r.kind = "raise"
    THEN [pc |-> "done", outcome |-> IpfsErrorResponse(r), loc |-> l]
    ELSE IF fn = "upload_image_to_ipfs"
    THEN [pc |-> "call_metadata", outcome |-> NoOutcome,
          loc |-> [l EXCEPT !.ipfs_image = r.value]]
    ELSE [pc |-> "done", outcome |-> Responded(200, None, <<l.ipfs_image, r.value>>),
          loc |-> [l EXCEPT !.ipfs_metadata = r.value]]

\* The handler of invocation p goes on after fn ended with r.
Resume(p, fn, r, l) ==
    IF entry[p] = "upload_to_ipfs_endpoint"
    THEN IpfsEndpointResume(fn, r, l)
    ELSE EndpointResume(fn, r, l)

\* The function fn of invocation p ends with r: the invocation ends when fn
\* is what was invoked, and its caller, the handler, goes on otherwise.
Finish(p, fn, r, l) ==
    IF entry[p] = fn
    THEN [pc |-> "done", outcome |-> r, loc |-> l]
    ELSE Resume(p, fn, r, l)

\* The invocation p goes on as `next` says, having issued the calls `made`.
GoOn(p, next, made) ==
    /\ pc' = [pc EXCEPT ![p] = next.pc]
    /\ outcome' = [outcome EXCEPT ![p] = next.outcome]
    /\ loc' = [loc EXCEPT ![p] = next.loc]
    /\ calls' = [calls EXCEPT ![p] = calls[p] \o made]

Continue(to, l) == [pc |-> to, outcome |-> NoOutcome, loc |-> l]

\* ------------------------------------------------- upload_image_to_ipfs

\* The credentials and the file are checked before any upload.
ImageStart(p) ==
    /\ pc[p] = "image_start"
    /\ GoOn(p,
            IF ~(PinataVars \subseteq env)
            THEN Finish(p, "upload_image_to_ipfs",
                        Raised("ValueError", "PINATA keys not set"), loc[p])
            ELSE IF args[p].filename \notin files
            THEN Finish(p, "upload_image_to_ipfs",
                        Raised("FileNotFoundError", "Image file not found"), loc[p])
            ELSE Continue("image_post", loc[p]),
            <<>>)
    /\ UNCHANGED <<now, env, files, entry, args, stages>>

\* (mutant) The content address is used without a look at it.
ImageUploadedUnchecked(p, answer) ==
    IF RequestError(answer.status) # None
    THEN Finish(p, "upload_image_to_ipfs",
                Raised(RequestError(answer.status), "Error uploading image"), loc[p])
    ELSE Continue("image_check", [loc[p] EXCEPT !.ipfs_hash = answer.IpfsHash,
                                                !.ipfs_url = GatewayUrl(answer.IpfsHash)])

\* What the upload's answer makes of the function: an exception, or the
\* gateway URL to confirm.
ImageUploaded(p, answer) ==
    IF RequestError(answer.status) # None
    THEN Finish(p, "upload_image_to_ipfs",
                Raised(RequestError(answer.status), "Error uploading image"), loc[p])
    ELSE IF answer.IpfsHash = ""
    THEN Finish(p, "upload_image_to_ipfs",
                Raised("ValueError", "Failed to get IPFS hash for image"),
                [loc[p] EXCEPT !.ipfs_hash = answer.IpfsHash])
    ELSE Continue("image_check", [loc[p] EXCEPT !.ipfs_hash = answer.IpfsHash,
                                                !.ipfs_url = GatewayUrl(answer.IpfsHash)])

\* requests.post(url, headers=headers, files=files)
ImagePost(p) ==
    /\ pc[p] = "image_post"
    /\ \E answer \in PinAnswers :
          GoOn(p, ImageUploaded(p, answer), <<Call("POST", PinFileUrl, -1, answer.status)>>)
    /\ UNCHANGED <<now, env, files, entry, args, stages>>

\* (mutant) The check fails on 4xx and 5xx only, as raise_for_status does.
ImageCheckedByRaiseForStatus(p, status) ==
    IF RequestError(status) # None
    THEN Finish(p, "upload_image_to_ipfs",
                Raised(RequestError(status), "Error uploading image"), loc[p])
    ELSE Finish(p, "upload_image_to_ipfs", Returned(loc[p].ipfs_url), loc[p])

\* What the availability check's answer makes of the function.
ImageChecked(p, status) ==
    IF status = NoAnswer
    THEN Finish(p, "upload_image_to_ipfs",
                Raised("ConnectionError", "Error uploading image"), loc[p])
    ELSE IF status # 200
    THEN Finish(p, "upload_image_to_ipfs",
                Raised("ValueError", "Image URL is not accessible"), loc[p])
    ELSE Finish(p, "upload_image_to_ipfs", Returned(loc[p].ipfs_url), loc[p])

\* requests.head(ipfs_url, timeout=10)
ImageCheck(p) ==
    /\ pc[p] = "image_check"
    /\ \E status \in Statuses \cup {NoAnswer} :
          GoOn(p, ImageChecked(p, status), <<Call("HEAD", loc[p].ipfs_url, -1, status)>>)
    /\ UNCHANGED <<now, env, files, entry, args, stages>>

\* ---------------------------------------------- upload_metadata_to_ipfs

\* The credentials are checked before any upload.
MetadataStart(p) ==
    /\ pc[p] = "metadata_start"
    /\ GoOn(p,
            IF ~(PinataVars \subseteq env)
            THEN Finish(p, "upload_metadata_to_ipfs",
                        Raised("ValueError", "PINATA keys not set"), loc[p])
            ELSE Continue("metadata_post", loc[p]),
            <<>>)
    /\ UNCHANGED <<now, env, files, entry, args, stages>>

MetadataUploaded(p, answer) ==
    IF RequestError(answer.status) # None
    THEN Finish(p, "upload_metadata_to_ipfs",
                Raised(RequestError(answer.status), "Error uploading metadata"), loc[p])
    ELSE IF answer.IpfsHash = ""
    THEN Finish(p, "upload_metadata_to_ipfs",
                Raised("ValueError", "Failed to get IPFS hash for metadata"),
                [loc[p] EXCEPT !.ipfs_hash = answer.IpfsHash])
    ELSE Continue("metadata_check", [loc[p] EXCEPT !.ipfs_hash = answer.IpfsHash,
                                                   !.ipfs_url = GatewayUrl(answer.IpfsHash)])

\* requests.post(url, json=payload, headers=headers)
MetadataPost(p) ==
    /\ pc[p] = "metadata_post"
    /\ \E answer \in PinAnswers :
          GoOn(p, MetadataUploaded(p, answer), <<Call("POST", PinJsonUrl, -1, answer.status)>>)
    /\ UNCHANGED <<now, env, files, entry, args, stages>>

\* The gateway's answers to the fetch of a document: a status and whether
\* the body parses as JSON.
FetchAnswers == {[status |-> s, json |-> j] : s \in Statuses \cup {NoAnswer}, j \in BOOLEAN}

\* What the confirmation fetch's answer makes of the function: the body is
\* not read.
MetadataChecked(p, answer) ==
    IF answer.status = NoAnswer
    THEN Finish(p, "upload_metadata_to_ipfs",
                Raised("ConnectionError", "Error uploading metadata"), loc[p])
    ELSE IF answer.status # 200
    THEN Finish(p, "upload_metadata_to_ipfs",
                Raised("ValueError", "Metadata URL is not accessible"),
                [loc[p] EXCEPT !.response = answer])
    ELSE Finish(p, "upload_metadata_to_ipfs", Returned(loc[p].ipfs_url),
                [loc[p] EXCEPT !.response = answer])

\* requests.get(ipfs_url, timeout=10)
MetadataCheck(p) ==
    /\ pc[p] = "metadata_check"
    /\ \E answer \in FetchAnswers :
          GoOn(p, MetadataChecked(p, answer), <<Call("GET", loc[p].ipfs_url, -1, answer.status)>>)
    /\ UNCHANGED <<now, env, files, entry, args, stages>>

\* ------------------------------------------------------------- mint_nft

\* What mint_nft returns: {"success": True, "response": ...} or
\* {"success": False, "error": ...}.
MintResult(success, response, error) ==
    [success |-> success, response |-> response, error |-> error]

\* The environment and the image URL's scheme are checked first.
MintStart(p) ==
    /\ pc[p] = "mint_start"
    /\ GoOn(p,
            IF "GETGEMS_AUTH_TOKEN" \notin env
            THEN Finish(p, "mint_nft", Raised("ValueError", "GETGEMS_AUTH_TOKEN not set"), loc[p])
            ELSE IF "COLLECTION_ADDRESS" \notin env
            THEN Finish(p, "mint_nft", Raised("ValueError", "COLLECTION_ADDRESS not set"), loc[p])
            ELSE IF ~StartsWith(args[p].image, Secure)
            THEN Finish(p, "mint_nft", Raised("ValueError", "Invalid image_ipfs URL"), loc[p])
            ELSE Continue("mint_head", loc[p]),
            <<>>)
    /\ UNCHANGED <<now, env, files, entry, args, stages>>

\* (mutant) A failed existence check is returned as a failed mint.
ImageVerifiedReturning(p, status) ==
    IF RequestError(status) # None
    THEN Finish(p, "mint_nft",
                Returned(MintResult(FALSE, NoBody.response, ErrorDetail(status))), loc[p])
    ELSE IF ~StartsWith(args[p].metadata, Secure)
    THEN Finish(p, "mint_nft", Raised("ValueError", "Invalid metadata_ipfs URL"), loc[p])
    ELSE Continue("mint_get", loc[p])

\* After the image's existence check: its failure is raised, and the
\* metadata URL's scheme is checked only then.
ImageVerified(p, status) ==
    IF RequestError(status) # None
    THEN Finish(p, "mint_nft", Raised(RequestError(status), "Failed to access image URL"), loc[p])
    ELSE IF ~StartsWith(args[p].metadata, Secure)
    THEN Finish(p, "mint_nft", Raised("ValueError", "Invalid metadata_ipfs URL"), loc[p])
    ELSE Continue("mint_get", loc[p])

\* requests.head(image_ipfs, timeout=10)
MintHead(p) ==
    /\ pc[p] = "mint_head"
    /\ \E status \in Statuses \cup {NoAnswer} :
          GoOn(p, ImageVerified(p, status), <<Call("HEAD", args[p].image, -1, status)>>)
    /\ UNCHANGED <<now, env, files, entry, args, stages>>

\* The gateway's answers to the fetch of the metadata: a status and the
\* document, which has an image field, has none, or is no JSON.
Documents == {"with_image", "without_image", "not_json"}
DocumentAnswers == {[status |-> s, doc |-> d] : s \in Statuses \cup {NoAnswer}, d \in Documents}

MetadataVerified(p, answer) ==
    IF RequestError(answer.status) # None
    THEN Finish(p, "mint_nft",
                Raised(RequestError(answer.status), "Failed to access metadata URL"), loc[p])
    ELSE IF answer.doc = "not_json"
    THEN Finish(p, "mint_nft", Raised("JSONDecodeError", "Failed to access metadata URL"), loc[p])
    ELSE IF answer.doc = "without_image"
    THEN Finish(p, "mint_nft", Raised("ValueError", "Metadata JSON missing 'image' field"),
                [loc[p] EXCEPT !.metadata_json = answer.doc])
    ELSE Continue("mint_submit", [loc[p] EXCEPT !.metadata_json = answer.doc])

\* requests.get(metadata_ipfs, timeout=10)
MintGet(p) ==
    /\ pc[p] = "mint_get"
    /\ \E answer \in DocumentAnswers :
          GoOn(p, MetadataVerified(p, answer), <<Call("GET", args[p].metadata, -1, answer.status)>>)
    /\ UNCHANGED <<now, env, files, entry, args, stages>>

\* str(int(time.time() * 1000)): the clock cut to whole milliseconds
RequestId(clock) == clock \div TicksPerMs

Payload(p, request_id) ==
    [requestId |-> request_id,
     ownerAddress |-> args[p].address,
     name |-> "name",
     description |-> "description",
     image |-> args[p].image,
     attributes |-> "attributes"]

\* if result.get("success") and result.get("response", {}).get("status") == status
HasStatus(body, status) == body.success /\ body.response.status = status

\* (mutant) A failed submission is raised to the caller.
SubmittedRaising(p, answer, l) ==
    IF RequestError(answer.status) # None
    THEN Finish(p, "mint_nft", Raised(RequestError(answer.status), ErrorDetail(answer.status)), l)
    ELSE IF HasStatus(answer.body, "in_queue")
    THEN Continue("mint_poll", [l EXCEPT !.result = answer.body, !.attempt = 0])
    ELSE Finish(p, "mint_nft", Returned(MintResult(TRUE, answer.body.response, None)),
                [l EXCEPT !.result = answer.body])

\* What the registry's answer to the submission makes of the function.
Submitted(p, answer, l) ==
    IF RequestError(answer.status) # None
    THEN Finish(p, "mint_nft",
                Returned(MintResult(FALSE, NoBody.response, ErrorDetail(answer.status))), l)
    ELSE IF HasStatus(answer.body, "in_queue")
    THEN Continue("mint_poll", [l EXCEPT !.result = answer.body, !.attempt = 0])
    ELSE Finish(p, "mint_nft", Returned(MintResult(TRUE, answer.body.response, None)),
                [l EXCEPT !.result = answer.body])

\* The request id is taken from the clock and the request is posted.
MintSubmit(p) ==
    /\ pc[p] = "mint_submit"
    /\ LET request_id == RequestId(now)
           l == [loc[p] EXCEPT !.request_id = request_id, !.payload = Payload(p, request_id)]
       IN \E answer \in RegistryAnswers(0) :
             GoOn(p, Submitted(p, answer, l), <<Call("POST", MintingUrl, request_id, answer.status)>>)
    /\ UNCHANGED <<now, env, files, entry, args, stages>>

\* (mutant) The loop goes on after a status poll that answered without
\* "ready".
AfterNonReadyPollContinuing(attempt) == "continue"

\* What follows a status poll that answered without "ready": the return of
\* line 103 stands in the loop's body, so the loop is left.
AfterNonReadyPoll(attempt) == "return"

\* What the registry's answer to status poll number attempt makes of the
\* function.
Polled(p, answer, attempt) ==
    LET l == [loc[p] EXCEPT !.attempt = attempt,
                            !.status_result = IF RequestError(answer.status) # None
                                              THEN loc[p].status_result ELSE answer.body]
    IN IF RequestError(answer.status) # None
       THEN Finish(p, "mint_nft",
                   Returned(MintResult(FALSE, NoBody.response, ErrorDetail(answer.status))), l)
       ELSE IF HasStatus(answer.body, "ready")
       THEN Finish(p, "mint_nft", Returned(MintResult(TRUE, answer.body.response, None)), l)
       ELSE IF AfterNonReadyPoll(attempt) = "continue" /\ attempt < PollBudget
       THEN Continue("mint_poll", l)
       ELSE Finish(p, "mint_nft", Returned(MintResult(TRUE, l.result.response, None)), l)

\* (mutant) The status URL is made of the clock at the time of the poll.
StatusCallOfNow(p, status) == Call("GET", StatusUrl, RequestId(now), status)

\* The status URL ends with the request id that was submitted.
StatusCall(p, status) == Call("GET", StatusUrl, loc[p].request_id, status)

\* One pass of the loop: requests.get(status_url, headers=headers)
MintPoll(p) ==
    /\ pc[p] = "mint_poll"
    /\ loc[p].attempt < PollBudget
    /\ LET attempt == loc[p].attempt + 1
       IN \E answer \in RegistryAnswers(attempt) :
             GoOn(p, Polled(p, answer, attempt), <<StatusCall(p, answer.status)>>)
    /\ UNCHANGED <<now, env, files, entry, args, stages>>

\* ------------------------------------------------------ mint_nft_endpoint

\* if request.address: an absent and an empty address are both false
Given(address) == address.len > 0

\* The parameters of the two later stages, none with a default, and the
\* arguments the handler passes to them.
MetadataParams == {"name", "description", "image_ipfs", "attributes"}
MetadataPassed == {"name", "description", "image_ipfs"}
MintParams == {"address", "image_ipfs", "metadata_ipfs", "name", "description", "attributes"}
MintPassed == {"address", "image_ipfs", "metadata_ipfs", "name", "description"}

\* A call binds its arguments before the function's body runs: a parameter
\* left without an argument is a TypeError.
Binds(params, passed) == params \subseteq passed

\* The address and the file are checked, then the image is published.
EndpointStart(p) ==
    /\ pc[p] = "endpoint_start"
    /\ IF Given(args[p].address) /\ ~MatchesAddress(args[p].address)
       THEN /\ GoOn(p, EndpointResume("mint_nft_endpoint",
                                      HTTPException(400, "Invalid TON address format"),
                                      loc[p]), <<>>)
            /\ UNCHANGED <<args, stages>>
       ELSE IF args[p].filename \notin files
       THEN /\ GoOn(p, EndpointResume("mint_nft_endpoint",
                                      HTTPException(400, "Image file not found"),
                                      loc[p]), <<>>)
            /\ UNCHANGED <<args, stages>>
       ELSE /\ GoOn(p, Continue("image_start", loc[p]), <<>>)
            /\ args' = [args EXCEPT ![p].address =
                           IF Given(args[p].address) THEN args[p].address ELSE TON_RECIPIENT]
            /\ stages' = [stages EXCEPT ![p] = Append(stages[p], "upload_image_to_ipfs")]
    /\ UNCHANGED <<now, env, files, entry>>

\* The handler calls its next stage with the URLs it holds.
EndpointCall(p) ==
    /\ pc[p] \in {"call_metadata", "call_mint"}
    /\ LET fn == IF pc[p] = "call_metadata" THEN "upload_metadata_to_ipfs" ELSE "mint_nft"
           bound == IF pc[p] = "call_metadata"
                    THEN Binds(MetadataParams, MetadataPassed)
                    ELSE Binds(MintParams, MintPassed)
           start == IF pc[p] = "call_metadata" THEN "metadata_start" ELSE "mint_start"
       IN /\ stages' = [stages EXCEPT ![p] = Append(stages[p], fn)]
          /\ IF bound
             THEN /\ GoOn(p, Continue(start, loc[p]), <<>>)
                  /\ args' = [args EXCEPT ![p].image = loc[p].ipfs_image,
                                          ![p].metadata = loc[p].ipfs_metadata]
             ELSE /\ GoOn(p, Resume(p, fn, Raised("TypeError", "missing argument"), loc[p]),
                          <<>>)
                  /\ UNCHANGED args
    /\ UNCHANGED <<now, env, files, entry>>

\* ------------------------------------------------ upload_to_ipfs_endpoint

\* The filename is checked, for its presence, its format and its file, then
\* the image is published.
UploadToIpfsStart(p) ==
    /\ pc[p] = "ipfs_start"
    /\ IF args[p].filename = NoFilename
       THEN /\ GoOn(p, IpfsEndpointResume("upload_to_ipfs_endpoint",
                                          HTTPException(400, "Filename is required"),
                                          loc[p]), <<>>)
            /\ UNCHANGED stages
       ELSE IF ~MatchesFilename(args[p].filename)
       THEN /\ GoOn(p, IpfsEndpointResume("upload_to_ipfs_endpoint",
                                          HTTPException(400, "Invalid filename format"),
                                          loc[p]), <<>>)
            /\ UNCHANGED stages
       ELSE IF args[p].filename \notin files
       THEN /\ GoOn(p, IpfsEndpointResume("upload_to_ipfs_endpoint",
                                          HTTPException(400, "Image file not found"),
                                          loc[p]), <<>>)
            /\ UNCHANGED stages
       ELSE /\ GoOn(p, Continue("image_start", loc[p]), <<>>)
            /\ stages' = [stages EXCEPT ![p] = Append(stages[p], "upload_image_to_ipfs")]
    /\ UNCHANGED <<now, env, files, entry, args>>

\* ------------------------------ generate_image_endpoint and generate_image

\* The handler calls generate_image, which checks its key first.
GenerateStart(p) ==
    /\ pc[p] = "generate_start"
    /\ GoOn(p,
            IF ~(StabilityVars \subseteq env)
            THEN [pc |-> "done", loc |-> loc[p],
                  outcome |-> ErrorResponse(Raised("ValueError", "STABILITY_API_KEY not set"))]
            ELSE Continue("generate_post", loc[p]),
            <<>>)
    /\ UNCHANGED <<now, env, files, entry, args, stages>>

\* requests.post(url, headers=headers, files=files): a failure is raised and
\* answered with an error; the image is written under a name made of the
\* clock, the handler finds the file and answers with its name.
GeneratePost(p) ==
    /\ pc[p] = "generate_post"
    /\ \E status \in Statuses \cup {NoAnswer} :
          LET filename == GeneratedName(Timestamp(now))
              made == <<Call("POST", StabilityUrl, -1, status)>>
          IN IF RequestError(status) # None
             THEN /\ GoOn(p, [pc |-> "done", loc |-> loc[p],
                              outcome |-> ErrorResponse(Raised(RequestError(status),
                                                               "Error generating image"))],
                          made)
                  /\ UNCHANGED files
             ELSE /\ files' = files \cup {filename}
                  /\ GoOn(p, [pc |-> "done", loc |-> [loc[p] EXCEPT !.filename = filename],
                              outcome |-> IF filename \in files'
                                          THEN Responded(200, "Image generated successfully",
                                                         filename)
                                          ELSE ErrorResponse(HTTPException(
                                                   500, "Generated image not found"))],
                          made)
    /\ UNCHANGED <<now, env, entry, args, stages>>

\* -------------------------------------------------- upload_image_endpoint

\* The content type and the size are checked, and the file is written under
\* a name made of the clock and the content type.
UploadImage(p) ==
    /\ pc[p] = "upload_start"
    /\ LET filename == UploadedName(Timestamp(now), args[p].content_type)
       IN IF args[p].content_type \notin AllowedTypes
          THEN /\ GoOn(p, [pc |-> "done", loc |-> loc[p],
                           outcome |-> ErrorResponse(HTTPException(
                                           400, "Only PNG or JPEG images are allowed"))],
                       <<>>)
               /\ UNCHANGED files
          ELSE IF args[p].oversize
          THEN /\ GoOn(p, [pc |-> "done", loc |-> loc[p],
                           outcome |-> ErrorResponse(HTTPException(
                                           400, "Image size must be less than 5MB"))],
                       <<>>)
               /\ UNCHANGED files
          ELSE /\ files' = files \cup {filename}
               /\ GoOn(p, [pc |-> "done", loc |-> [loc[p] EXCEPT !.filename = filename],
                           outcome |-> Responded(200, "Image uploaded successfully", filename)],
                       <<>>)
    /\ UNCHANGED <<now, env, entry, args, stages>>

\* ------------------------------------------------------------ invocation

\* The arguments a caller may give to each entry point.
Arguments(fn) ==
    IF fn = "upload_image_to_ipfs"
    THEN {[NoArgs EXCEPT !.filename = f] : f \in Filenames}
    ELSE IF fn = "upload_metadata_to_ipfs"
    THEN {[NoArgs EXCEPT !.image = u] : u \in UrlInputs}
    ELSE IF fn = "mint_nft"
    THEN {[NoArgs EXCEPT !.address = a, !.image = u, !.metadata = m] :
             a \in Addresses, u \in UrlInputs, m \in UrlInputs}
    ELSE IF fn = "mint_nft_endpoint"
    THEN {[NoArgs EXCEPT !.address = a, !.filename = f] : a \in Addresses, f \in Filenames}
    ELSE IF fn = "generate_image_endpoint"
    THEN {NoArgs}
    ELSE IF fn = "upload_image_endpoint"
    THEN {[NoArgs EXCEPT !.content_type = c, !.oversize = o] : c \in ContentTypes, o \in BOOLEAN}
    ELSE {[NoArgs EXCEPT !.filename = f] : f \in FilenameInputs}

StartOf(fn) ==
    IF fn = "upload_image_to_ipfs" THEN "image_start"
    ELSE IF fn = "upload_metadata_to_ipfs" THEN "metadata_start"
    ELSE IF fn = "mint_nft" THEN "mint_start"
    ELSE IF fn = "mint_nft_endpoint" THEN "endpoint_start"
    ELSE IF fn = "generate_image_endpoint" THEN "generate_start"
    ELSE IF fn = "upload_image_endpoint" THEN "upload_start"
    ELSE "ipfs_start"

\* A caller invokes fn with the arguments a.
Invoke(p, fn, a) ==
    /\ pc[p] = "idle"
    /\ entry' = [entry EXCEPT ![p] = fn]
    /\ args' = [args EXCEPT ![p] = a]
    /\ pc' = [pc EXCEPT ![p] = StartOf(fn)]
    /\ UNCHANGED <<now, env, files, loc, calls, stages, outcome>>

InvokeAny(p) == \E fn \in Entries : \E a \in Arguments(fn) : Invoke(p, fn, a)

\* One invocation, of any entry point.
Next ==
    \/ Tick
    \/ \E p \in {"a"} :
          \/ InvokeAny(p)
          \/ ImageStart(p) \/ ImagePost(p) \/ ImageCheck(p)
          \/ MetadataStart(p) \/ MetadataPost(p) \/ MetadataCheck(p)
          \/ MintStart(p) \/ MintHead(p) \/ MintGet(p) \/ MintSubmit(p) \/ MintPoll(p)
          \/ EndpointStart(p) \/ EndpointCall(p)
          \/ UploadToIpfsStart(p) \/ GenerateStart(p) \/ GeneratePost(p) \/ UploadImage(p)

Spec == Init /\ [][Next]_vars

\* The steps of mint_nft: each is a blocking call that returns, with an
\* answer or with a failure, and the invocation has one thread of control.
MintSteps(p) == MintStart(p) \/ MintHead(p) \/ MintGet(p) \/ MintSubmit(p) \/ MintPoll(p)

\* One invocation whose mint_nft steps are not postponed forever.
SpecLive == Spec /\ \A p \in Procs : WF_vars(MintSteps(p))

\* Two invocations of mint_nft that run concurrently, in a complete
\* environment, each for a well-formed or a too short address and a
\* published image.
ConcurrentArguments ==
    {a \in Arguments("mint_nft") :
        /\ a.address.alphabet
        /\ a.address.len \in {AddressLen - 1, AddressLen}
        /\ a.image = GatewayUrl("QmA")
        /\ a.metadata # a.image}

InvokeMint(p) == \E a \in ConcurrentArguments : Invoke(p, "mint_nft", a)

NextMint ==
    \/ Tick
    \/ \E p \in Procs :
          \/ InvokeMint(p)
          \/ MintStart(p) \/ MintHead(p) \/ MintGet(p) \/ MintSubmit(p) \/ MintPoll(p)

InitMint == Init /\ env = EnvVars

SpecMint == InitMint /\ [][NextMint]_vars

\* Two requests that run concurrently, in a complete environment, each to
\* /generate-image, /upload-image or /upload-to-ipfs.
ArtifactEntries == {"generate_image_endpoint", "upload_image_endpoint", "upload_to_ipfs_endpoint"}

InvokeArtifact(p) == \E fn \in ArtifactEntries : \E a \in Arguments(fn) : Invoke(p, fn, a)

NextArtifacts ==
    \/ Tick
    \/ \E p \in Procs :
          \/ InvokeArtifact(p)
          \/ GenerateStart(p) \/ GeneratePost(p) \/ UploadImage(p)
          \/ UploadToIpfsStart(p) \/ ImageStart(p) \/ ImagePost(p) \/ ImageCheck(p)
          \/ EndpointCall(p)

InitArtifacts == Init /\ env = EnvVars

SpecArtifacts == InitArtifacts /\ [][NextArtifacts]_vars

\* ---------------------------------------------------------------- claims

Ended(p) == pc[p] = "done"
Rejected(p) == Ended(p) /\ outcome[p].kind = "raise" /\ outcome[p].exc = "ValueError"

\* mint_nft returned a successful result after a submission that was
\* answered in_queue.
ReturnedAfterQueue(p) ==
    /\ entry[p] = "mint_nft"
    /\ Ended(p)
    /\ outcome[p].kind = "return"
    /\ outcome[p].value.success
    /\ HasStatus(loc[p].result, "in_queue")

\* C1: an invocation of mint_nft with an address that does not match the
\* 48-character pattern issues no network call and ends rejected with a
\* validation error.
C1_BadAddressRejectedWithoutCalls ==
    \A p \in Procs :
        entry[p] = "mint_nft" /\ ~MatchesAddress(args[p].address)
            => /\ calls[p] = <<>>
               /\ Ended(p) => Rejected(p)

\* C2: after an in_queue submission, mint_nft returns successfully before
\* the poll budget is used up only on a poll answered ready, and then with
\* that poll's response: non-ready polls before the k-th do not end it.
C2_ReadyOnTheKthPoll ==
    \A p \in Procs :
        ReturnedAfterQueue(p) /\ loc[p].attempt < PollBudget
            => /\ HasStatus(loc[p].status_result, "ready")
               /\ outcome[p].value.response = loc[p].status_result.response

\* C3: after an in_queue submission whose polls all answered non-ready,
\* mint_nft returns only after the whole budget of polls, and with the
\* response of the last poll, not of the submission.
C3_ExhaustedCarriesLastPoll ==
    \A p \in Procs :
        ReturnedAfterQueue(p) /\ loc[p].attempt >= 1 /\ ~HasStatus(loc[p].status_result, "ready")
            => /\ loc[p].attempt = PollBudget
               /\ outcome[p].value.response.status # "ready"
               /\ outcome[p].value.response = loc[p].status_result.response

\* The invocation p has posted its mint request.
HasSubmitted(p) == \E i \in 1..Len(calls[p]) : calls[p][i].method = "POST" /\ calls[p][i].to = MintingUrl

\* C4: any two invocations of mint_nft submit distinct request ids.
C4_DistinctRequestIds ==
    \A p, q \in Procs :
        p # q /\ HasSubmitted(p) /\ HasSubmitted(q)
            => loc[p].payload.requestId # loc[q].payload.requestId

\* C5: an invocation of mint_nft whose image URL or metadata URL does not
\* start with https:// issues no network call and ends rejected.
C5_InsecureUrlRejectedWithoutCalls ==
    \A p \in Procs :
        /\ entry[p] = "mint_nft"
        /\ ~StartsWith(args[p].image, Secure) \/ ~StartsWith(args[p].metadata, Secure)
        => /\ calls[p] = <<>>
           /\ Ended(p) => Rejected(p)

Publishers == {"upload_image_to_ipfs", "upload_metadata_to_ipfs"}
CheckMethod(fn) == IF fn = "upload_image_to_ipfs" THEN "HEAD" ELSE "GET"

\* The second call of p is the availability check of url, answered 200.
Confirmed(p, fn, url) ==
    /\ Len(calls[p]) >= 2
    /\ calls[p][2].method = CheckMethod(fn)
    /\ calls[p][2].to = url
    /\ calls[p][2].status = 200

\* The upload of p was answered 2xx with a content address.
Published(p) ==
    /\ Len(calls[p]) >= 1
    /\ RequestError(calls[p][1].status) = None
    /\ loc[p].ipfs_hash \in Hashes

\* C6: a publisher that ended after an upload answered with a content
\* address has issued the availability check of the gateway URL; it returns
\* that URL only when the check answered 200, and any other answer of the
\* check ends it with an exception.  The handler holds an image URL only
\* from such a return.
C6_AvailabilityConfirmed ==
    \A p \in Procs :
        /\ entry[p] \in Publishers /\ Ended(p) /\ Published(p)
              => /\ Len(calls[p]) = 2
                 /\ calls[p][2].method = CheckMethod(entry[p])
                 /\ calls[p][2].to = GatewayUrl(loc[p].ipfs_hash)
        /\ entry[p] \in Publishers /\ Ended(p) /\ outcome[p].kind = "return"
              => /\ Published(p)
                 /\ outcome[p].value = GatewayUrl(loc[p].ipfs_hash)
                 /\ Confirmed(p, entry[p], outcome[p].value)
        /\ entry[p] \in Publishers /\ Ended(p) /\ Len(calls[p]) = 2 /\ calls[p][2].status # 200
              => outcome[p].kind = "raise"
        /\ entry[p] = "mint_nft_endpoint" /\ loc[p].ipfs_image # NoUrl
              => Confirmed(p, "upload_image_to_ipfs", loc[p].ipfs_image)

\* A publisher returned the URL after a check answered 200.
C6_Witness ==
    \E p \in Procs :
        /\ entry[p] = "upload_metadata_to_ipfs"
        /\ Ended(p)
        /\ outcome[p].kind = "return"
        /\ Confirmed(p, entry[p], outcome[p].value)

\* C7: upload_image_to_ipfs ends with a ValueError, no RequestException, and
\* without an availability check when the upload is answered 2xx without
\* IpfsHash, and with an HTTPError, a RequestException, when it is answered
\* 500.
C7_ContractErrorIsNotTransportError ==
    \A p \in Procs :
        entry[p] = "upload_image_to_ipfs" /\ Ended(p) /\ Len(calls[p]) >= 1
            => /\ calls[p][1].status = 500
                    => /\ outcome[p].kind = "raise"
                       /\ outcome[p].exc = "HTTPError"
                       /\ IsRequestException(outcome[p].exc)
                       /\ Len(calls[p]) = 1
               /\ calls[p][1].status = 200 /\ loc[p].ipfs_hash = ""
                    => /\ outcome[p].kind = "raise"
                       /\ outcome[p].exc = "ValueError"
                       /\ ~IsRequestException(outcome[p].exc)
                       /\ Len(calls[p]) = 1

\* The upload was answered 2xx without IpfsHash.
C7_Witness ==
    \E p \in Procs :
        /\ entry[p] = "upload_image_to_ipfs"
        /\ Ended(p)
        /\ Len(calls[p]) = 1
        /\ calls[p][1].status = 200
        /\ loc[p].ipfs_hash = ""
        /\ outcome[p].exc = "ValueError"

\* The registry answered the submission of p, or its last status poll,
\* with ready.
RegistryReady(p) ==
    HasStatus(loc[p].result, "ready") \/ HasStatus(loc[p].status_result, "ready")

\* C8: a /mint-nft request for an existing file and a well-formed address,
\* in a complete environment, with every call answered with success and
\* the registry answering ready, reaches mint_nft and is answered
\* "successfully minted" with the URL.
C8_PipelineEndsReady ==
    \A p \in Procs :
        /\ entry[p] = "mint_nft_endpoint"
        /\ Ended(p)
        /\ env = EnvVars
        /\ MatchesAddress(args[p].address)
        /\ args[p].filename \in files
        /\ \A i \in 1..Len(calls[p]) : calls[p][i].status = 200
        /\ loc[p].ipfs_hash \in Hashes
        /\ Len(calls[p]) >= 6 => loc[p].metadata_json = "with_image"
        /\ HasSubmitted(p) => RegistryReady(p)
        => /\ \E i \in 1..Len(stages[p]) : stages[p][i] = "mint_nft"
           /\ outcome[p].status = 200
           /\ outcome[p].message = "NFT successfully minted"
           /\ outcome[p].detail = "getgems.io/nft"

\* The fields of a payload that hold a URL.
PayloadUrls(payload) == {payload.image}

\* C9: the payload posted to the registry holds the metadata URL that
\* mint_nft was given.
C9_PayloadHoldsMetadataUrl ==
    \A p \in Procs :
        HasSubmitted(p) => args[p].metadata \in PayloadUrls(loc[p].payload)

Pipeline == <<"upload_image_to_ipfs", "upload_metadata_to_ipfs", "mint_nft">>

\* C10: the handler invokes its stages in the order image, metadata, mint:
\* the metadata publish only holding the image URL that the image publish
\* returned, mint_nft only holding the metadata URL, and a request that
\* ended short of a successful mint_nft is answered with an error.
C10_StagesInOrder ==
    \A p \in Procs :
        entry[p] = "mint_nft_endpoint"
            => /\ Len(stages[p]) <= Len(Pipeline)
               /\ stages[p] = SubSeq(Pipeline, 1, Len(stages[p]))
               /\ Len(stages[p]) >= 2 => StartsWith(loc[p].ipfs_image, Secure)
               /\ Len(stages[p]) >= 3 => StartsWith(loc[p].ipfs_metadata, Secure)
               /\ Ended(p)
                    => /\ outcome[p].kind = "response"
                       /\ outcome[p].status # 500
                            => /\ stages[p] = Pipeline
                               /\ StartsWith(loc[p].ipfs_image, Secure)
                               /\ StartsWith(loc[p].ipfs_metadata, Secure)

\* The metadata publish was invoked after the image publish returned its
\* URL, it failed, and the request was answered with an error.
C10_Witness ==
    \E p \in Procs :
        /\ entry[p] = "mint_nft_endpoint"
        /\ Ended(p)
        /\ stages[p] = SubSeq(Pipeline, 1, 2)
        /\ StartsWith(loc[p].ipfs_image, Secure)
        /\ outcome[p].status = 500

\* The two handlers that write an artifact and answer with its name.
Producers == {"generate_image_endpoint", "upload_image_endpoint"}

\* The request p was answered with the name of the artifact it wrote.
Produced(p) ==
    /\ entry[p] \in Producers
    /\ Ended(p)
    /\ outcome[p].status = 200

\* C11: every filename that /generate-image or /upload-image answers with
\* matches the filename pattern of /upload-to-ipfs, and a /upload-to-ipfs
\* request that names such an artifact, the file being on disk, is not
\* rejected for the format of its filename.
C11_ProducedNamesPassValidation ==
    \A p \in Procs :
        Produced(p)
            => /\ MatchesFilename(outcome[p].detail)
               /\ \A q \in Procs :
                     /\ entry[q] = "upload_to_ipfs_endpoint"
                     /\ Ended(q)
                     /\ args[q].filename = outcome[p].detail
                     /\ args[q].filename \in files
                     => outcome[q] # IpfsErrorResponse(HTTPException(400, "Invalid filename format"))

\* The positions in the calls of p of its calls to the registry, and of
\* its status polls.
RegistryCalls(p) == {i \in 1..Len(calls[p]) : calls[p][i].to \in {MintingUrl, StatusUrl}}
Polls(p) == {i \in 1..Len(calls[p]) : calls[p][i].to = StatusUrl}
Submissions(p) == {i \in 1..Len(calls[p]) : calls[p][i].to = MintingUrl}

\* An answer with a status of the 2xx class.
Is2xx(status) == status >= 200 /\ status < 300

C13_FirstNonReadyPollReturnsSubmitResponse ==
    \A p \in Procs :
        /\ entry[p] = "mint_nft"
        /\ HasStatus(loc[p].result, "in_queue")
        /\ loc[p].attempt = 1
        /\ Is2xx(calls[p][Len(calls[p])].status)
        /\ ~HasStatus(loc[p].status_result, "ready")
        => /\ Ended(p)
           /\ outcome[p] = Returned(MintResult(TRUE, loc[p].result.response, None))
           /\ outcome[p].value.response.status = "in_queue"
           /\ Cardinality(Polls(p)) = 1

\* The first poll was answered "failed" and the submission's response was
\* returned.
C13_Witness ==
    \E p \in Procs :
        /\ entry[p] = "mint_nft"
        /\ Ended(p)
        /\ HasStatus(loc[p].result, "in_queue")
        /\ Cardinality(Polls(p)) = 1
        /\ loc[p].status_result.response.status = "failed"
        /\ outcome[p].value.response = loc[p].result.response

\* The polls of p follow a submission answered in_queue, are no more than
\* the budget, and carry the request id that was submitted.
PollsWithinBudget(p) ==
    /\ Cardinality(Polls(p)) <= PollBudget
    /\ \A i \in Polls(p) :
          /\ HasStatus(loc[p].result, "in_queue")
          /\ \E j \in Submissions(p) :
                /\ j < i
                /\ Is2xx(calls[p][j].status)
                /\ calls[p][i].id = calls[p][j].id
          /\ calls[p][i].id = loc[p].payload.requestId

DoubleCheckFailed(p) ==
    \/ Len(calls[p]) >= 1 /\ RequestError(calls[p][1].status) # None
    \/ Len(calls[p]) >= 2 /\ RequestError(calls[p][2].status) # None
    \/ Len(calls[p]) >= 2 /\ loc[p].metadata_json = "without_image"

\* C15: an invocation of mint_nft whose double-check failed ends with a
\* raised exception, not with a returned result, and without a post to the
\* registry.
C15_FailedDoubleCheckIsRaised ==
    \A p \in Procs :
        entry[p] = "mint_nft" /\ DoubleCheckFailed(p)
            => /\ Ended(p)
               /\ outcome[p].kind = "raise"
               /\ ~HasSubmitted(p)
               /\ RegistryCalls(p) = {}

\* The metadata was fetched and has no image field.
C15_Witness ==
    \E p \in Procs :
        /\ entry[p] = "mint_nft"
        /\ Ended(p)
        /\ Len(calls[p]) = 2
        /\ loc[p].metadata_json = "without_image"
        /\ outcome[p].kind = "raise"

\* C16: two requests that run concurrently and write an artifact, both to
\* /generate-image or both to /upload-image with the same content type,
\* write files of distinct names.
C16_DistinctArtifactNames ==
    \A p, q \in Procs :
        /\ p # q
        /\ Produced(p) /\ Produced(q)
        /\ entry[p] = entry[q]
        /\ args[p].content_type = args[q].content_type
        => loc[p].filename # loc[q].filename

\* C17: upload_metadata_to_ipfs ends with an exception, not with the URL,
\* when the confirmation fetch was answered 200 with a body that does not
\* parse as JSON.
C17_UnparsableMetadataFails ==
    \A p \in Procs :
        /\ entry[p] = "upload_metadata_to_ipfs"
        /\ Ended(p)
        /\ Len(calls[p]) = 2
        /\ loc[p].response.status = 200
        /\ ~loc[p].response.json
        => outcome[p].kind = "raise"

\* A registry response with status ready was received by p: the answer to
\* its submission or to its last status poll.
ReceivedReady(p) ==
    \/ loc[p].result.response.serial = 0 /\ loc[p].result.response.status = "ready"
    \/ loc[p].status_result.response.serial >= 1
            /\ loc[p].status_result.response.status = "ready"

\* C18: mint_nft returns a response of status ready only when the registry
\* answered its submission or a status poll with status ready, and the
\* handler's answer to a result of mint_nft is "successfully minted" only
\* then.
C18_ReadyOnlyFromRegistry ==
    \A p \in Procs :
        /\ entry[p] = "mint_nft" /\ Ended(p) /\ outcome[p].kind = "return"
              => /\ outcome[p].value.response.status = "ready" => ReceivedReady(p)
                 /\ MintAnswer(outcome[p].value).message = "NFT successfully minted"
                        => ReceivedReady(p)
        /\ entry[p] = "mint_nft_endpoint" /\ Ended(p)
              /\ outcome[p].message = "NFT successfully minted"
              => ReceivedReady(p)

\* mint_nft returned the ready response of a status poll.
C18_Witness ==
    \E p \in Procs :
        /\ entry[p] = "mint_nft"
        /\ Ended(p)
        /\ outcome[p].kind = "return"
        /\ outcome[p].value.response.status = "ready"
        /\ outcome[p].value.response.serial = 1
        /\ MintAnswer(outcome[p].value).message = "NFT successfully minted"

\* The submission of p was answered 2xx with a body of success false, or of
\* a status other than ready and in_queue.
AnsweredOtherwise(p) ==
    /\ Submissions(p) # {}
    /\ \A i \in Submissions(p) : Is2xx(calls[p][i].status)
    /\ \/ ~loc[p].result.success
       \/ loc[p].result.response.status \notin {"ready", "in_queue"}

\* C19: mint_nft returns success False only after a registry call that
\* failed; and after a submission answered 2xx with success false, or with
\* a status other than ready and in_queue, it returns success True with
\* that response, polls nothing, and the handler's answer to this result is
\* "queued for minting".
C19_OtherAnswersAreQueued ==
    \A p \in Procs :
        entry[p] = "mint_nft"
            => /\ Ended(p) /\ outcome[p].kind = "return" /\ ~outcome[p].value.success
                    => \E i \in RegistryCalls(p) : RequestError(calls[p][i].status) # None
               /\ AnsweredOtherwise(p)
                    => /\ Ended(p)
                       /\ outcome[p] = Returned(MintResult(TRUE, loc[p].result.response, None))
                       /\ Polls(p) = {}
                       /\ MintAnswer(outcome[p].value).message = "NFT queued for minting"

\* The three handlers that raise HTTPException(400) on a bad input.
Validating == {"mint_nft_endpoint", "upload_to_ipfs_endpoint", "upload_image_endpoint"}

\* The input of the request p is one that its handler rejects.
BadInput(p) ==
    IF entry[p] = "mint_nft_endpoint"
    THEN \/ Given(args[p].address) /\ ~MatchesAddress(args[p].address)
         \/ args[p].filename \notin files
    ELSE IF entry[p] = "upload_to_ipfs_endpoint"
    THEN \/ args[p].filename = NoFilename
         \/ ~MatchesFilename(args[p].filename)
         \/ args[p].filename \notin files
    ELSE \/ args[p].content_type \notin AllowedTypes
         \/ args[p].oversize

\* The handler of p came to its end without an exception: the file is
\* written, or the metadata is published.
Completed(p) ==
    IF entry[p] = "upload_image_endpoint"
    THEN loc[p].filename \in files
    ELSE loc[p].ipfs_metadata # NoUrl

\* C20: a request to /mint-nft, /upload-to-ipfs or /upload-image is answered
\* with 200 or 500 and never with 400: with 500 whenever the handler did not
\* come to its end, and so when it rejects the input, which it does without
\* a network call.
C20_RejectionsAreAnswered500 ==
    \A p \in Procs :
        entry[p] \in Validating /\ Ended(p)
            => /\ outcome[p].kind = "response"
               /\ outcome[p].status \in {200, 500}
               /\ outcome[p].status # 400
               /\ ~Completed(p) => outcome[p].status = 500
               /\ BadInput(p) => outcome[p].status = 500 /\ calls[p] = <<>>

\* /upload-image rejected a content type.
C20_Witness ==
    \E p \in Procs :
        /\ entry[p] = "upload_image_endpoint"
        /\ Ended(p)
        /\ args[p].content_type \notin AllowedTypes
        /\ outcome[p] = Responded(500, None, "Only PNG or JPEG images are allowed")

====
